---- MODULE Spec2Model ----
(***************************************************************************)
(* Model of app.py: the artifact loader run at import time (safe_load and  *)
(* the four module-level loads) and the two Flask routes, GET / (index)    *)
(* and POST /predict (predict).                                            *)
(*                                                                         *)
(* Texts that the code inspects character by character (form values, a     *)
(* textual prediction) are sequences of one-character strings; texts that  *)
(* the code only builds (the result messages) are strings.                 *)
(***************************************************************************)
EXTENDS Integers, Sequences, FiniteSets, TLC

VARIABLES disk, loaded, model, sc, ms, label_encoder, pc, route, form, response, locals

vars == <<disk, loaded, model, sc, ms, label_encoder, pc, route, form, response, locals>>

artifacts == <<disk, loaded, model, sc, ms, label_encoder>>

-----------------------------------------------------------------------------
(* Bounds of the model *)

\* At most this many fields of a submitted form differ from the plain number text.
MaxOdd == 2

\* The numeric outputs of a classifier range over -1 .. MaxCode, in steps of 0.5.
MaxCode == 23

-----------------------------------------------------------------------------
(* Python values *)

\* Python's None, for the artifact slots.
None == "None"

\* A str or None, as request.form.get and crop_name hold it.
NoneText == [none |-> TRUE, s |-> <<>>]

Text(s) == [none |-> FALSE, s |-> s]

RECURSIVE Join(_)
\* The string a character sequence spells (what an f-string shows of it).
Join(s) == IF s = <<>> THEN "" ELSE Head(s) \o Join(Tail(s))

Whitespace == {" ", "\t"}

Digits == {"0", "1", "2", "3", "4", "5", "6", "7", "8", "9"}

DigitValue(c) ==
    CASE c = "0" -> 0 [] c = "1" -> 1 [] c = "2" -> 2 [] c = "3" -> 3 [] c = "4" -> 4
      [] c = "5" -> 5 [] c = "6" -> 6 [] c = "7" -> 7 [] c = "8" -> 8 [] c = "9" -> 9

\* str.lower on the letters that spell nan, inf and infinity.
Lower(c) ==
    CASE c = "N" -> "n" [] c = "A" -> "a" [] c = "I" -> "i" [] c = "F" -> "f"
      [] c = "T" -> "t" [] c = "Y" -> "y" [] OTHER -> c

LowerAll(s) == [i \in 1..Len(s) |-> Lower(s[i])]

RECURSIVE LStrip(_)
LStrip(s) == IF s # <<>> /\ Head(s) \in Whitespace THEN LStrip(Tail(s)) ELSE s

RECURSIVE RStrip(_)
RStrip(s) ==
    IF s # <<>> /\ s[Len(s)] \in Whitespace THEN RStrip(SubSeq(s, 1, Len(s) - 1)) ELSE s

\* str.strip(): leading and trailing whitespace removed.
PyStrip(s) == RStrip(LStrip(s))

RECURSIVE DigitsValue(_)
\* The number a run of decimal digits denotes.
DigitsValue(s) ==
    IF s = <<>> THEN 0 ELSE 10 * DigitsValue(SubSeq(s, 1, Len(s) - 1)) + DigitValue(s[Len(s)])

RECURSIVE Pow10(_)
Pow10(n) == IF n = 0 THEN 1 ELSE 10 * Pow10(n - 1)

AllDigits(s) == \A i \in 1..Len(s) : s[i] \in Digits

\* A Python float: a finite value num/den, nan, or +-inf (num is the sign).
Finite(num, den) == [kind |-> "finite", num |-> num, den |-> den]

NaN == [kind |-> "nan", num |-> 0, den |-> 1]

Inf(sign) == [kind |-> "inf", num |-> sign, den |-> 1]

ValueError == [ok |-> FALSE, val |-> NaN]

Parsed(v) == [ok |-> TRUE, val |-> v]

\* float(str) on an unsigned, stripped text: nan, inf, infinity (any case), or
\* decimal digits with at most one point and at least one digit.  Exponents and
\* digit-group underscores are not modelled; no input of the model uses them.
FloatUnsigned(t, sign) ==
    LET low == LowerAll(t)
        dots == {i \in 1..Len(t) : t[i] = "."}
    IN  IF low = <<"n", "a", "n">> THEN Parsed(NaN)
        ELSE IF low \in {<<"i", "n", "f">>, <<"i", "n", "f", "i", "n", "i", "t", "y">>}
            THEN Parsed(Inf(sign))
        ELSE IF dots = {}
            THEN IF t # <<>> /\ AllDigits(t)
                    THEN Parsed(Finite(sign * DigitsValue(t), 1))
                    ELSE ValueError
        ELSE IF Cardinality(dots) = 1
            THEN LET d == CHOOSE i \in dots : TRUE
                     ip == SubSeq(t, 1, d - 1)
                     fp == SubSeq(t, d + 1, Len(t))
                 IN  IF AllDigits(ip) /\ AllDigits(fp) /\ Len(ip) + Len(fp) > 0
                        THEN Parsed(Finite(sign * (DigitsValue(ip) * Pow10(Len(fp))
                                                   + DigitsValue(fp)),
                                           Pow10(Len(fp))))
                        ELSE ValueError
        ELSE ValueError

\* float(raw) for a str: the parsed value, or ValueError raised.
PyFloat(s) ==
    LET t == PyStrip(s)
    IN  IF t = <<>> THEN ValueError
        ELSE IF Head(t) = "-" THEN FloatUnsigned(Tail(t), -1)
        ELSE IF Head(t) = "+" THEN FloatUnsigned(Tail(t), 1)
        ELSE FloatUnsigned(t, 1)

\* A real number: what a soil or climate measurement is.
IsReal(v) == v.kind = "finite"

-----------------------------------------------------------------------------
(* Artifact loader *)

ModelPath == "model.pkl"

StandScalerPath == "standscaler.pkl"

MinMaxScalerPath == "minmaxscaler.pkl"

LabelEncoderPath == "label_encoder.pkl"

\* The four module-level loads, in the order the module runs them.
LoadOrder == <<ModelPath, StandScalerPath, MinMaxScalerPath, LabelEncoderPath>>

Paths == {LoadOrder[i] : i \in 1..Len(LoadOrder)}

\* A file is absent, present but failing to deserialize, or present and loadable.
FileStates == {"missing", "corrupt", "ok"}

\* loader(path), joblib.load: the object the file holds (named by its path), or an
\* exception when the file cannot be deserialized.
loader(path) ==
    IF disk[path] = "ok"
        THEN [raised |-> FALSE, value |-> path]
        ELSE [raised |-> TRUE, value |-> None]

\* Faulty variant of safe_load: no try around the loader, so its exception leaves.
safe_load_unguarded(path) ==
    IF disk[path] # "missing"
        THEN loader(path)
        ELSE [raised |-> FALSE, value |-> None]

\* safe_load(path): what it returns, and whether an exception leaves it.
safe_load(path) ==
    LET attempt == IF disk[path] # "missing"
                      THEN loader(path)
                      ELSE [raised |-> FALSE, value |-> None]
    IN  IF attempt.raised
           THEN [raised |-> FALSE, value |-> None]
           ELSE attempt

-----------------------------------------------------------------------------
(* The request and its form *)

\* fields, in the handler's order.
fields == <<"Nitrogen", "Phosporus", "Potassium", "Temperature", "Humidity", "Ph", "Rainfall">>

FieldSet == {fields[i] : i \in 1..Len(fields)}

\* The text most fields of a submitted form hold.
PlainText == <<"7">>

\* The other texts a field may hold: empty, whitespace only, not a number,
\* nan, a padded negative decimal.
OddTexts ==
    { <<>>, <<" ", "\t">>, <<"a", "b", "c">>, <<"n", "a", "n">>,
      <<" ", "-", "1", ".", "5", " ">> }

\* The forms where the fields of D are odd: absent from the form, or holding an odd text.
FormsWithOdd(D) ==
    UNION { { [f \in FieldSet \ M |-> IF f \in D THEN g[f] ELSE PlainText] :
                g \in [D \ M -> OddTexts] } : M \in SUBSET D }

\* The submitted forms: a dict from field names to texts.
Forms ==
    UNION { FormsWithOdd(D) : D \in {S \in SUBSET FieldSet : Cardinality(S) <= MaxOdd} }

\* request.form.get(field): the text, or None when the form has no such field.
FormGet(frm, field) == IF field \in DOMAIN frm THEN Text(frm[field]) ELSE NoneText

NoForm == <<>>

-----------------------------------------------------------------------------
(* The response and the handler's locals *)

NoResponse == [kind |-> "none", hasResult |-> FALSE, result |-> "", exc |-> ""]

\* render_template("index.html")
BarePage == [kind |-> "page", hasResult |-> FALSE, result |-> "", exc |-> ""]

\* render_template("index.html", result=result)
Page(result) == [kind |-> "page", hasResult |-> TRUE, result |-> result, exc |-> ""]

\* An exception that leaves the handler: Flask answers 500.
Escaped(exc) == [kind |-> "error500", hasResult |-> FALSE, result |-> "", exc |-> exc]

\* A raw prediction: an integer n, a float n/2, nan, a text s, or None.
PredInt(n) == [kind |-> "int", n |-> n, s |-> <<>>]

PredFloat(twice) == [kind |-> "float", n |-> twice, s |-> <<>>]

PredNaN == [kind |-> "nan", n |-> 0, s |-> <<>>]

PredStr(s) == [kind |-> "str", n |-> 0, s |-> s]

PredNone == [kind |-> "NoneType", n |-> 0, s |-> <<>>]

\* crop_name: None or a str.
NoName == [none |-> TRUE, s |-> ""]

Name(str) == [none |-> FALSE, s |-> str]

\* The handler's locals and what it did, as left when it returns:
\*   read      the fields fetched from the form,
\*   parsed    the fields float() was applied to,
\*   values    the list values,
\*   calls     the calls made on the scalers and the classifier, in order,
\*   predicted whether pred was bound, and pred,
\*   tiers     the label-resolution tiers entered, in order,
\*   encoder   how the label encoder tier ended, and encoded, what it returned,
\*   crop_name the resolved name.
NoLocals ==
    [read |-> <<>>, parsed |-> <<>>, values |-> <<>>, calls |-> <<>>,
     predicted |-> FALSE, pred |-> PredNone,
     tiers |-> <<>>, encoder |-> "unused", encoded |-> NoName, crop_name |-> NoName]

-----------------------------------------------------------------------------
(* POST /predict: availability check and validation *)

\* Faulty variant of ConfigMissing: the scalers are not checked.
ConfigMissingModelOnly(m, s, n) == m = None

ConfigMissing(m, s, n) == m = None \/ s = None \/ n = None

ConfigError ==
    "Server configuration error: model or scaler not loaded. "
        \o "Ensure model.pkl, standscaler.pkl and minmaxscaler.pkl exist in the app folder."

\* Faulty variant of IsBlank: the text is not stripped.
IsBlankNoStrip(raw) == raw.none \/ raw.s = <<>>

\* raw is None or raw.strip() == ""
IsBlank(raw) == raw.none \/ PyStrip(raw.s) = <<>>

MissingMsg(field) == "Please provide a value for " \o field \o "."

InvalidMsg(field, raw) ==
    "Invalid numeric value for " \o field \o ": '" \o Join(raw.s) \o "'"

RECURSIVE ValidateFrom(_, _, _)
\* The loop over fields from the i-th on, values holding the numbers so far.
ValidateFrom(frm, i, values) ==
    IF i > Len(fields)
        THEN [ok |-> TRUE, result |-> "", read |-> fields, parsed |-> fields,
              values |-> values]
        ELSE LET field == fields[i]
                 raw == FormGet(frm, field)
             IN  IF IsBlank(raw)
                    THEN [ok |-> FALSE, result |-> MissingMsg(field),
                          read |-> SubSeq(fields, 1, i), parsed |-> SubSeq(fields, 1, i - 1),
                          values |-> values]
                    ELSE LET val == PyFloat(raw.s)
                         IN  IF ~val.ok
                                THEN [ok |-> FALSE, result |-> InvalidMsg(field, raw),
                                      read |-> SubSeq(fields, 1, i),
                                      parsed |-> SubSeq(fields, 1, i),
                                      values |-> values]
                                ELSE ValidateFrom(frm, i + 1, Append(values, val.val))

Validate(frm) == ValidateFrom(frm, 1, <<>>)
-----------------------------------------------------------------------------
(* POST /predict: scaling and classification *)

\* What the artifacts do is theirs to decide: a call returns or raises, and the
\* model lets either happen whenever the code makes the call.
ScaleDetails == {"X has 7 features, but MinMaxScaler is expecting 4 features as input."}

PredictDetails == {"Input X contains NaN."}

\* np.array(values).reshape(1, -1): one row; by lists the transforms applied to it.
single_pred(values) == [row |-> values, by |-> <<>>]

\* A call made on an artifact: its argument, and the exception detail when it raised.
Call(fn, arg, out) == [fn |-> fn, arg |-> arg, raised |-> out.raised, detail |-> out.detail]

\* The outcomes of scaler.transform(x) for the scaler bound to the name given.
TransformOutcomes(scaler, name, x) ==
    IF scaler = None
        THEN {[raised |-> TRUE, out |-> x,
               detail |-> "'NoneType' object has no attribute 'transform'"]}
        ELSE {[raised |-> FALSE, out |-> [x EXCEPT !.by = Append(@, name)], detail |-> ""]}
             \cup {[raised |-> TRUE, out |-> x, detail |-> d] : d \in ScaleDetails}

\* Numeric classifier outputs: the integers, and the floats in steps of 0.5.
Codes == -1..MaxCode

Halves == -2..(2 * MaxCode + 1)

PredTexts == {<<"r", "i", "c", "e">>, <<>>, <<"3">>}

Preds ==
    {PredInt(n) : n \in Codes} \cup {PredFloat(h) : h \in Halves}
        \cup {PredNaN, PredNone} \cup {PredStr(t) : t \in PredTexts}

\* The outcomes of model.predict(x): an exception, something that cannot be
\* indexed, an empty array, or an array whose first element is a raw prediction.
PredictOutcomes(m, x) ==
    IF m = None
        THEN {[raised |-> TRUE, shape |-> "none", first |-> PredNone,
               detail |-> "'NoneType' object has no attribute 'predict'"]}
        ELSE {[raised |-> TRUE, shape |-> "none", first |-> PredNone, detail |-> d] :
                d \in PredictDetails}
             \cup {[raised |-> FALSE, shape |-> sh, first |-> PredNone, detail |-> ""] :
                     sh \in {"scalar", "empty"}}
             \cup {[raised |-> FALSE, shape |-> "array", first |-> p, detail |-> ""] :
                     p \in Preds}

ScalingError(detail) == "Error while scaling features: " \o detail

PredictionError(detail) == "Error during model prediction: " \o detail

\* The exception prediction[0] raises when there is no first element.
IndexFailure(shape) == IF shape = "empty" THEN "IndexError" ELSE "TypeError"

-----------------------------------------------------------------------------
(* POST /predict: label resolution and the result *)

\* int(text): optional sign and decimal digits, surrounding whitespace allowed.
IntOfText(s) ==
    LET t == PyStrip(s)
        neg == t # <<>> /\ Head(t) = "-"
        u == IF t # <<>> /\ Head(t) \in {"-", "+"} THEN Tail(t) ELSE t
    IN  IF u # <<>> /\ AllDigits(u)
           THEN [ok |-> TRUE, n |-> IF neg THEN -DigitsValue(u) ELSE DigitsValue(u)]
           ELSE [ok |-> FALSE, n |-> 0]

\* Faulty variant of PyInt: a float is rounded half up instead of truncated.
PyIntRounding(pred) ==
    CASE pred.kind = "int" -> [ok |-> TRUE, n |-> pred.n]
      [] pred.kind = "float" -> [ok |-> TRUE, n |-> (pred.n + 1) \div 2]
      [] pred.kind = "str" -> IntOfText(pred.s)
      [] OTHER -> [ok |-> FALSE, n |-> 0]

\* int(pred): a float is truncated toward zero; nan, None and a non-numeric text raise.
PyInt(pred) ==
    CASE pred.kind = "int" -> [ok |-> TRUE, n |-> pred.n]
      [] pred.kind = "float" ->
            [ok |-> TRUE, n |-> IF pred.n >= 0 THEN pred.n \div 2 ELSE -((-pred.n) \div 2)]
      [] pred.kind = "str" -> IntOfText(pred.s)
      [] OTHER -> [ok |-> FALSE, n |-> 0]

\* str(pred), as the f-string shows it.
PyStr(pred) ==
    CASE pred.kind = "int" -> ToString(pred.n)
      [] pred.kind = "float" ->
            LET a == IF pred.n >= 0 THEN pred.n ELSE -pred.n
            IN  (IF pred.n < 0 THEN "-" ELSE "") \o ToString(a \div 2)
                    \o (IF a % 2 = 1 THEN ".5" ELSE ".0")
      [] pred.kind = "nan" -> "nan"
      [] pred.kind = "str" -> Join(pred.s)
      [] OTHER -> "None"

\* isinstance(pred, str)
IsStr(pred) == pred.kind = "str"

\* pred == k for an integer k.
EqualsInt(pred, k) ==
    \/ pred.kind = "int" /\ pred.n = k
    \/ pred.kind = "float" /\ pred.n = 2 * k

crop_dict ==
    [k \in 1..22 |->
        CASE k = 1 -> "Rice" [] k = 2 -> "Maize" [] k = 3 -> "Jute" [] k = 4 -> "Cotton"
          [] k = 5 -> "Coconut" [] k = 6 -> "Papaya" [] k = 7 -> "Orange" [] k = 8 -> "Apple"
          [] k = 9 -> "Muskmelon" [] k = 10 -> "Watermelon" [] k = 11 -> "Grapes"
          [] k = 12 -> "Mango" [] k = 13 -> "Banana" [] k = 14 -> "Pomegranate"
          [] k = 15 -> "Lentil" [] k = 16 -> "Blackgram" [] k = 17 -> "Mungbean"
          [] k = 18 -> "Mothbeans" [] k = 19 -> "Pigeonpeas" [] k = 20 -> "Kidneybeans"
          [] k = 21 -> "Chickpea" [] k = 22 -> "Coffee"]

\* Faulty variant of CropDictGet: the table read as if its keys started at 0.
CropDictGetZeroBased(k) ==
    IF k + 1 \in DOMAIN crop_dict THEN Name(crop_dict[k + 1]) ELSE NoName

\* crop_dict.get(k)
CropDictGet(k) == IF k \in DOMAIN crop_dict THEN Name(crop_dict[k]) ELSE NoName

\* What label_encoder.inverse_transform([code])[0] may do: raise, or return a
\* name, which may be empty, or None.
EncoderNames == {"Wheat", "Rice", ""}

EncoderOutcomes(code) ==
    {[raised |-> TRUE, value |-> NoName], [raised |-> FALSE, value |-> NoName]}
        \cup {[raised |-> FALSE, value |-> Name(nm)] : nm \in EncoderNames}

\* Faulty variant of ResolveFallbacks: crop_dict is tried first and overrides
\* the name found so far.
ResolveFallbacksTableFirst(pred, name, tiers) ==
    LET code == PyInt(pred)
        fromTable == IF code.ok THEN CropDictGet(code.n) ELSE NoName
        name2 == IF ~fromTable.none THEN fromTable ELSE name
        name3 == IF name2.none /\ IsStr(pred) THEN Name(PyStr(pred)) ELSE name2
    IN  [crop_name |-> name3, tiers |-> tiers \o <<"crop_dict", "str">>]

\* Tiers 2 and 3: with no name yet, a textual pred is the name; with still no
\* name, int(pred) is looked up in crop_dict.
ResolveFallbacks(pred, name, tiers) ==
    LET name2 == IF name.none /\ IsStr(pred) THEN Name(PyStr(pred)) ELSE name
        tiers2 == IF name.none THEN Append(tiers, "str") ELSE tiers
        code == PyInt(pred)
        name3 == IF name2.none
                    THEN IF code.ok THEN CropDictGet(code.n) ELSE NoName
                    ELSE name2
        tiers3 == IF name2.none THEN Append(tiers2, "crop_dict") ELSE tiers2
    IN  [crop_name |-> name3, tiers |-> tiers3]

\* if crop_name:
Truthy(name) == ~name.none /\ name.s # ""

SuccessMsg(name) == name \o " is the best crop to be cultivated right there."

SorryMsg(pred) == "Sorry, could not determine the best crop. Model output: " \o PyStr(pred)

FormatResult(name, pred) == IF Truthy(name) THEN SuccessMsg(name.s) ELSE SorryMsg(pred)

-----------------------------------------------------------------------------
(* The program *)

Init ==
    /\ disk \in [Paths -> FileStates]
    /\ loaded = 0
    /\ model = None /\ sc = None /\ ms = None /\ label_encoder = None
    /\ pc = "startup"
    /\ route = ""
    /\ form = NoForm
    /\ response = NoResponse
    /\ locals = NoLocals

\* One of the module-level statements  x = safe_load(X_PATH).
LoadArtifact ==
    /\ pc = "startup"
    /\ loaded < Len(LoadOrder)
    /\ LET path == LoadOrder[loaded + 1]
           r == safe_load(path)
       IN  IF r.raised
              THEN /\ pc' = "crashed"
                   /\ UNCHANGED <<loaded, model, sc, ms, label_encoder>>
              ELSE /\ loaded' = loaded + 1
                   /\ model' = IF path = ModelPath THEN r.value ELSE model
                   /\ sc' = IF path = StandScalerPath THEN r.value ELSE sc
                   /\ ms' = IF path = MinMaxScalerPath THEN r.value ELSE ms
                   /\ label_encoder' =
                        IF path = LabelEncoderPath THEN r.value ELSE label_encoder
                   /\ pc' = IF loaded + 1 = Len(LoadOrder) THEN "serving" ELSE "startup"
    /\ UNCHANGED <<disk, route, form, response, locals>>

\* GET /: the bare page.
index ==
    /\ pc = "serving"
    /\ pc' = "responded"
    /\ route' = "/"
    /\ response' = BarePage
    /\ UNCHANGED <<artifacts, form, locals>>

\* A client posts a form to /predict.
Submit ==
    /\ pc = "serving"
    /\ \E f \in Forms : form' = f
    /\ pc' = "handling"
    /\ route' = "/predict"
    /\ UNCHANGED <<artifacts, response, locals>>

\* The handler returns (or an exception leaves it) with its locals as given.
Respond(resp, loc) ==
    /\ pc' = "responded"
    /\ response' = resp
    /\ locals' = loc
    /\ UNCHANGED <<artifacts, route, form>>

\* Tiers 2 and 3 and the result message, from the locals after tier 1.
Finish(loc) ==
    LET r == ResolveFallbacks(loc.pred, loc.crop_name, loc.tiers)
    IN  Respond(Page(FormatResult(r.crop_name, loc.pred)),
                [loc EXCEPT !.crop_name = r.crop_name, !.tiers = r.tiers])

\* Faulty variant of Resolve: a failure of the label encoder ends the request
\* with an error message.
ResolveStrict(loc) ==
    IF label_encoder # None
        THEN LET code == PyInt(loc.pred)
                 l1 == [loc EXCEPT !.tiers = <<"label_encoder">>]
             IN  IF ~code.ok
                    THEN Respond(Page("Error while resolving the label"),
                                 [l1 EXCEPT !.encoder = "failed"])
                    ELSE \E e \in EncoderOutcomes(code.n) :
                            IF e.raised
                               THEN Respond(Page("Error while resolving the label"),
                                            [l1 EXCEPT !.encoder = "failed"])
                               ELSE Finish([l1 EXCEPT !.encoder = "returned",
                                                      !.encoded = e.value,
                                                      !.crop_name = e.value])
        ELSE Finish(loc)

\* Tier 1: the label encoder, when one is loaded.
Resolve(loc) ==
    IF label_encoder # None
        THEN LET code == PyInt(loc.pred)
                 l1 == [loc EXCEPT !.tiers = <<"label_encoder">>]
             IN  IF ~code.ok
                    THEN Finish([l1 EXCEPT !.encoder = "failed"])
                    ELSE \E e \in EncoderOutcomes(code.n) :
                            IF e.raised
                               THEN Finish([l1 EXCEPT !.encoder = "failed"])
                               ELSE Finish([l1 EXCEPT !.encoder = "returned",
                                                      !.encoded = e.value,
                                                      !.crop_name = e.value])
        ELSE Finish(loc)

\* model.predict(final_features) and pred = prediction[0].
Classify(loc, final_features) ==
    \E p \in PredictOutcomes(model, final_features) :
        LET l1 == [loc EXCEPT !.calls = Append(@, Call("model.predict", final_features, p))]
        IN  IF p.raised
               THEN Respond(Page(PredictionError(p.detail)), l1)
               ELSE IF p.shape # "array"
                       THEN Respond(Escaped(IndexFailure(p.shape)), l1)
                       ELSE Resolve([l1 EXCEPT !.predicted = TRUE, !.pred = p.first])

\* Faulty variant of Scale: the Standard scaler is applied before the MinMax scaler.
ScaleStandardFirst(loc) ==
    LET x == single_pred(loc.values)
    IN  \E a \in TransformOutcomes(sc, "sc", x) :
            LET l1 == [loc EXCEPT !.calls = Append(@, Call("sc.transform", x, a))]
            IN  IF a.raised
                   THEN Respond(Page(ScalingError(a.detail)), l1)
                   ELSE \E b \in TransformOutcomes(ms, "ms", a.out) :
                           LET l2 == [l1 EXCEPT !.calls =
                                                   Append(@, Call("ms.transform", a.out, b))]
                           IN  IF b.raised
                                  THEN Respond(Page(ScalingError(b.detail)), l2)
                                  ELSE Classify(l2, b.out)

\* The two transforms, MinMax then Standard, under one try.
Scale(loc) ==
    LET x == single_pred(loc.values)
    IN  \E a \in TransformOutcomes(ms, "ms", x) :
            LET l1 == [loc EXCEPT !.calls = Append(@, Call("ms.transform", x, a))]
            IN  IF a.raised
                   THEN Respond(Page(ScalingError(a.detail)), l1)
                   ELSE \E b \in TransformOutcomes(sc, "sc", a.out) :
                           LET l2 == [l1 EXCEPT !.calls =
                                                   Append(@, Call("sc.transform", a.out, b))]
                           IN  IF b.raised
                                  THEN Respond(Page(ScalingError(b.detail)), l2)
                                  ELSE Classify(l2, b.out)

\* POST /predict: the handler, from its first line to its return.
predict ==
    /\ pc = "handling"
    /\ IF ConfigMissing(model, sc, ms)
          THEN Respond(Page(ConfigError), NoLocals)
          ELSE LET v == Validate(form)
                   l0 == [NoLocals EXCEPT !.read = v.read, !.parsed = v.parsed,
                                          !.values = v.values]
               IN  IF ~v.ok THEN Respond(Page(v.result), l0) ELSE Scale(l0)

\* The response is sent and the request's context is gone.
Close ==
    /\ pc = "responded"
    /\ pc' = "serving"
    /\ route' = ""
    /\ form' = NoForm
    /\ response' = NoResponse
    /\ locals' = NoLocals
    /\ UNCHANGED artifacts

Next == LoadArtifact \/ index \/ Submit \/ predict \/ Close

Spec == Init /\ [][Next]_vars

-----------------------------------------------------------------------------
(* Properties *)

\* A POST /predict has been handled and its response not yet sent.
Handled == pc = "responded" /\ route = "/predict"

AllLoaded == model # None /\ sc # None /\ ms # None

\* The i-th field is absent from the form, or holds only whitespace.
BlankField(i) ==
    \/ fields[i] \notin DOMAIN form
    \/ \A j \in 1..Len(form[fields[i]]) : form[fields[i]][j] \in Whitespace

\* The i-th field holds a text that float() accepts.
NumberField(i) == ~BlankField(i) /\ PyFloat(form[fields[i]]).ok

\* The i-th field holds a text that denotes a real number.
RealField(i) == NumberField(i) /\ IsReal(PyFloat(form[fields[i]]).val)

\* Nothing after the i-th field was fetched, nothing from the i-th on was
\* accepted, and neither the scalers nor the classifier ran.
StoppedAt(i) ==
    /\ locals.read = SubSeq(fields, 1, i)
    /\ Len(locals.values) = i - 1
    /\ locals.calls = <<>>
    /\ ~locals.predicted
    /\ locals.tiers = <<>>

\* C1: with the classifier or either scaler unset, every POST /predict returns
\* the configuration-error message whatever the form holds; no field is
\* fetched or parsed and no artifact is called.
C1_ConfigError ==
    (Handled /\ (model = None \/ sc = None \/ ms = None))
        => /\ response = Page(ConfigError)
           /\ locals.read = <<>> /\ locals.parsed = <<>> /\ locals.values = <<>>
           /\ locals.calls = <<>> /\ ~locals.predicted

\* C1's case: the Standard scaler alone is unset and the form lacks its first field.
C1_Witness ==
    /\ Handled /\ model # None /\ ms # None /\ sc = None
    /\ "Nitrogen" \notin DOMAIN form
    /\ response.result = ConfigError

\* C2 as stated: the first blank or missing field yields exactly
\* "Please provide a value for <field>" and nothing later is evaluated.
C2_AsStated ==
    \A i \in 1..Len(fields) :
        (Handled /\ AllLoaded /\ BlankField(i) /\ \A j \in 1..(i - 1) : NumberField(j))
            => /\ response = Page("Please provide a value for " \o fields[i])
               /\ StoppedAt(i)

\* C2 amended: the first blank or missing field yields exactly
\* "Please provide a value for <field>." (with the full stop) whatever the later
\* fields hold, and nothing later is evaluated.
C2_MissingField ==
    \A i \in 1..Len(fields) :
        (Handled /\ AllLoaded /\ BlankField(i) /\ \A j \in 1..(i - 1) : NumberField(j))
            => /\ response = Page("Please provide a value for " \o fields[i] \o ".")
               /\ locals.parsed = SubSeq(fields, 1, i - 1)
               /\ StoppedAt(i)

\* C2's case: the third field holds only whitespace and a later one is not a number.
C2_Witness ==
    /\ Handled /\ AllLoaded
    /\ "Potassium" \in DOMAIN form /\ form["Potassium"] = <<" ", "\t">>
    /\ "Ph" \in DOMAIN form /\ form["Ph"] = <<"a", "b", "c">>
    /\ response.result = "Please provide a value for Potassium."

\* C3: a present, non-blank field that is not a real number, after fields that
\* are real numbers, yields "Invalid numeric value for <field>: '<raw>'" with no
\* artifact called; only real numbers enter the feature vector.
C3_OnlyRealNumbers ==
    /\ \A i \in 1..Len(fields) :
        (Handled /\ AllLoaded /\ ~BlankField(i) /\ ~RealField(i)
           /\ \A j \in 1..(i - 1) : RealField(j))
            => /\ response = Page("Invalid numeric value for " \o fields[i] \o ": '"
                                    \o Join(form[fields[i]]) \o "'")
               /\ StoppedAt(i)
    /\ Handled => \A k \in 1..Len(locals.values) : IsReal(locals.values[k])

\* The table's entry for a numeric prediction: the name at its integer part.
TableName(k) == crop_dict[k] \o " is the best crop to be cultivated right there."

\* C4: with no label resolver, a raw output equal to a key k of the table
\* gives "<table[k]> is the best crop to be cultivated right there."; 1 gives Rice.
C4_TableLookup ==
    (Handled /\ label_encoder = None /\ locals.predicted)
        => /\ \A k \in 1..22 :
                EqualsInt(locals.pred, k) => response = Page(TableName(k))
           /\ EqualsInt(locals.pred, 1)
                => response.result = "Rice is the best crop to be cultivated right there."
           /\ EqualsInt(locals.pred, 22)
                => response.result = "Coffee is the best crop to be cultivated right there."

\* C4's case: the classifier returned 1 with no label encoder loaded.
C4_Witness ==
    /\ Handled /\ label_encoder = None /\ locals.predicted
    /\ locals.pred = PredInt(1)
    /\ response.result = "Rice is the best crop to be cultivated right there."

Sorry(shown) == "Sorry, could not determine the best crop. Model output: " \o shown

\* C5 as stated: with no label resolver, every raw output that equals no key
\* of the table (other integers, non-integers, texts) gives the Sorry message.
C5_AsStated ==
    (Handled /\ label_encoder = None /\ locals.predicted
       /\ \A k \in 1..22 : ~EqualsInt(locals.pred, k))
        => response = Page(Sorry(PyStr(locals.pred)))

\* The raw output names no crop: a number whose integer part is outside 1..22,
\* nan, None, or the empty text.
Unresolvable(pred) ==
    \/ pred.kind = "int" /\ pred.n \notin 1..22
    \/ pred.kind = "float" /\ (pred.n < 2 \/ pred.n >= 46)
    \/ pred.kind \in {"nan", "NoneType"}
    \/ pred.kind = "str" /\ pred.s = <<>>

\* C5 amended: with no label resolver, a raw output that is a number whose
\* integer part is outside 1..22, or nan, None or the empty text, gives the
\* Sorry message showing it; every other output gives a success message.
C5_Unresolved ==
    (Handled /\ label_encoder = None /\ locals.predicted)
        => IF Unresolvable(locals.pred)
              THEN /\ response = Page(Sorry(PyStr(locals.pred)))
                   /\ locals.pred = PredFloat(1) => response.result = Sorry("0.5")
                   /\ locals.pred = PredInt(23) => response.result = Sorry("23")
              ELSE /\ response.kind = "page"
                   /\ response.result # Sorry(PyStr(locals.pred))

\* C5's case: the classifier returned 0.5 with no label encoder loaded.
C5_Witness ==
    /\ Handled /\ label_encoder = None /\ locals.predicted
    /\ locals.pred = PredFloat(1)
    /\ response.result = "Sorry, could not determine the best crop. Model output: 0.5"

\* C6 as stated: when the loaded label resolver returns, the result shows what
\* it returned and the later tiers are not consulted.
C6_AsStated ==
    (Handled /\ label_encoder # None /\ locals.encoder = "returned")
        => /\ response = Page(locals.encoded.s
                                \o " is the best crop to be cultivated right there.")
           /\ locals.tiers = <<"label_encoder">>

\* C6 amended: when the loaded label resolver returns a non-empty name, the
\* result shows that name and the later tiers are not consulted, even when the
\* code is a key of the table.
C6_EncoderFirst ==
    (Handled /\ label_encoder # None /\ locals.encoder = "returned"
       /\ ~locals.encoded.none /\ locals.encoded.s # "")
        => /\ response = Page(locals.encoded.s
                                \o " is the best crop to be cultivated right there.")
           /\ locals.tiers = <<"label_encoder">>

\* C6's case: the encoder names code 1 Wheat, which the table names Rice.
C6_Witness ==
    /\ Handled /\ label_encoder # None /\ locals.encoder = "returned"
    /\ locals.pred = PredInt(1)
    /\ locals.encoded = Name("Wheat")
    /\ response.result = "Wheat is the best crop to be cultivated right there."

\* C7: every POST /predict ends with the rendered page and a result; no
\* exception leaves the handler.
C7_NeverRaises == Handled => (response.kind = "page" /\ response.hasResult)

\* The result for a raw output when no label encoder takes part.
WithoutEncoder(pred) ==
    IF pred.kind = "str"
        THEN IF pred.s # <<>>
                THEN Join(pred.s) \o " is the best crop to be cultivated right there."
                ELSE Sorry("")
        ELSE IF Unresolvable(pred)
                THEN Sorry(PyStr(pred))
                ELSE TableName(IF pred.kind = "int" THEN pred.n ELSE pred.n \div 2)

\* C8: when the loaded label resolver fails (it raises, or the raw output has
\* no integer value), the request still ends with a result, the later tiers
\* are tried in order, and the result is the one of that output with no resolver.
C8_EncoderFailure ==
    (Handled /\ label_encoder # None /\ locals.encoder = "failed")
        => /\ response = Page(WithoutEncoder(locals.pred))
           /\ locals.tiers = IF locals.pred.kind = "str"
                                THEN <<"label_encoder", "str">>
                                ELSE <<"label_encoder", "str", "crop_dict">>

\* C8's case: the encoder raised on code 1 and the table named it.
C8_Witness ==
    /\ Handled /\ label_encoder # None /\ locals.encoder = "failed"
    /\ locals.pred = PredInt(1)
    /\ response.result = "Rice is the best crop to be cultivated right there."

\* The slot the module binds to what safe_load returns for a path.
Slot(path) ==
    CASE path = ModelPath -> model
      [] path = StandScalerPath -> sc
      [] path = MinMaxScalerPath -> ms
      [] path = LabelEncoderPath -> label_encoder

\* C9: startup never aborts; each load done so far left the loaded object when
\* the file is there and loads, and None otherwise; all four loads are done
\* before the first request.
C9_SafeLoad ==
    /\ pc # "crashed"
    /\ \A i \in 1..Len(LoadOrder) :
        Slot(LoadOrder[i]) = IF i <= loaded /\ disk[LoadOrder[i]] = "ok"
                                THEN LoadOrder[i]
                                ELSE None
    /\ pc # "startup" => loaded = Len(LoadOrder)

\* C9's case: the first file fails to load, the second is absent, the last two load.
C9_Witness ==
    /\ pc = "serving"
    /\ disk[ModelPath] = "corrupt" /\ disk[StandScalerPath] = "missing"
    /\ disk[MinMaxScalerPath] = "ok" /\ disk[LabelEncoderPath] = "ok"
    /\ model = None /\ sc = None
    /\ ms = MinMaxScalerPath /\ label_encoder = LabelEncoderPath

\* The calls a request that passes validation makes, when none raises.
PipelineCalls(row) ==
    << [fn |-> "ms.transform", arg |-> [row |-> row, by |-> <<>>]],
       [fn |-> "sc.transform", arg |-> [row |-> row, by |-> <<"ms">>]],
       [fn |-> "model.predict", arg |-> [row |-> row, by |-> <<"ms", "sc">>]] >>

\* C10: after validation the seven values, in field order, go through the
\* MinMax scaler, then the Standard scaler, then once through the classifier;
\* a raising scaler ends the request with "Error while scaling features:
\* <detail>" and no classifier call, a raising classifier with "Error during
\* model prediction: <detail>" and no label resolution.
C10_PipelineOrder ==
    (Handled /\ AllLoaded /\ \A i \in 1..Len(fields) : NumberField(i))
        => LET row == [i \in 1..Len(fields) |-> PyFloat(form[fields[i]]).val]
               n == Len(locals.calls)
           IN  /\ locals.values = row
               /\ n \in 1..3
               /\ \A i \in 1..n :
                    /\ locals.calls[i].fn = PipelineCalls(row)[i].fn
                    /\ locals.calls[i].arg = PipelineCalls(row)[i].arg
                    /\ locals.calls[i].raised <=> (i = n /\ ~locals.predicted
                                                     /\ response.kind = "page")
               /\ locals.predicted => n = 3
               /\ response.kind # "page" => n = 3 /\ ~locals.predicted
               /\ (locals.calls[n].raised /\ n < 3)
                    => /\ response = Page("Error while scaling features: "
                                            \o locals.calls[n].detail)
                       /\ locals.tiers = <<>>
               /\ (locals.calls[n].raised /\ n = 3)
                    => /\ response = Page("Error during model prediction: "
                                            \o locals.calls[n].detail)
                       /\ locals.tiers = <<>>

\* C10's case: a padded negative decimal is the first value of the row the
\* classifier was called on, and the classifier raised.
C10_Witness ==
    /\ Handled /\ AllLoaded
    /\ Len(locals.calls) = 3 /\ locals.calls[3].raised
    /\ locals.calls[3].arg.row[1] = Finite(-15, 10)
    /\ locals.calls[3].arg.by = <<"ms", "sc">>
    /\ response.result = "Error during model prediction: Input X contains NaN."
====
